---- MODULE Spec2Model ----
(***************************************************************************)
(* A model of dashboard/dashboard.py: one Streamlit script that is re-run  *)
(* top to bottom on every UI interaction.  A render pass loads and joins   *)
(* the input tables (memoized), computes the RFM segments (memoized),      *)
(* merges the segment onto every row, reads the four sidebar filters,      *)
(* filters the table and aggregates it for the KPI cards and the charts.   *)
(*                                                                         *)
(* Timestamps are whole ticks, UnitsPerDay ticks to a day; a date is a day *)
(* number; a month is DaysPerMonth days.  Money is whole currency units.   *)
(***************************************************************************)
EXTENDS Integers, Sequences, FiniteSets, TLC

VARIABLES
    files,                \* the input on disk: [fault, rows]
    load_cache,           \* st.cache_data entry of load_data()
    rfm_cache,            \* st.cache_data entries of calculate_rfm(df)
    first_run,            \* TRUE until the session's widgets have been drawn once
    pc,                   \* position of the script in the current pass
    ran,                  \* the stages the current pass has executed
    reported,             \* what the pass has shown as an error
    merged_df,            \* the name merged_df of the script
    rfm,                  \* the name rfm of the script
    date_range,           \* value returned by st.sidebar.date_input
    selected_categories,  \* values returned by the three multiselects
    selected_states,
    selected_segments,
    start_date,
    end_date,
    filtered_df,
    out,                  \* what the pass rendered: KPI cards, chart data, tables
    score_in,             \* input of the segment_customer probe
    score_out             \* its result

vars == <<files, load_cache, rfm_cache, first_run, pc, ran, reported, merged_df,
          rfm, date_range, selected_categories, selected_states,
          selected_segments, start_date, end_date, filtered_df, out,
          score_in, score_out>>

----------------------------------------------------------------------------
(* Bounds of the model *)

MaxRows == 3          \* rows of the joined table
MaxSelected == 2      \* options ticked in one multiselect
UnitsPerDay == 2      \* clock ticks in a day
DaysPerMonth == 2     \* days in a month bucket

----------------------------------------------------------------------------
(* Generic helpers *)

\* Values that may be absent are tagged records
Unset == [tag |-> "unset"]                  \* a name the pass has not bound yet
NoValue == [tag |-> "None"]                 \* Python's None
DataFrame(rows) == [tag |-> "DataFrame", rows |-> rows]

Max(S) == CHOOSE x \in S : \A y \in S : y <= x
Min(S) == CHOOSE x \in S : \A y \in S : x <= y

RECURSIVE SumSeq(_)
SumSeq(s) == IF s = <<>> THEN 0 ELSE Head(s) + SumSeq(Tail(s))

\* The strings of the model in Python's sort order (sorted(), groupby keys)
StringOrder == <<"At Risk", "Champions", "Loyal", "Potential", "RJ", "SP",
                 "Unknown", "bed_bath_table", "computers">>

\* sorted(S) for a set of strings
SortedStrings(S) == SelectSeq(StringOrder, LAMBDA x : x \in S)

RECURSIVE SortedInts(_)
\* sorted(S) for a set of integers
SortedInts(S) ==
    IF S = {} THEN <<>>
    ELSE LET m == Min(S) IN <<m>> \o SortedInts(S \ {m})

Range(s) == {s[i] : i \in DOMAIN s}

----------------------------------------------------------------------------
(* The input files.  Catalogue lists the rows the inner joins of            *)
(* orders, order_items, products and customers can produce; an input is a   *)
(* non-empty run of at most MaxRows consecutive rows of it.                 *)

TS(day, tick) == day * UnitsPerDay + tick

RawRow(o, c, cat, st, day, tick, p, f) ==
    [order_id |-> o, customer_id |-> c, product_category_name |-> cat,
     customer_state |-> st, order_purchase_timestamp |-> TS(day, tick),
     price |-> p, freight_value |-> f]

Catalogue ==
    << RawRow(1, 1, "cama_mesa_banho", "SP", 0, 0, 2, 1),
       RawRow(1, 1, "pcs",             "SP", 0, 0, 1, 0),
       RawRow(2, 2, "cama_mesa_banho", "RJ", 0, UnitsPerDay - 1, 3, 1),
       RawRow(3, 1, "moveis",          "SP", 1, 0, 1, 1),
       RawRow(4, 3, "pcs",             "RJ", 1, UnitsPerDay - 1, 5, 0),
       RawRow(5, 4, "cama_mesa_banho", "RJ", 2, 0, 2, 2) >>

\* product_category_name_translation.csv; "moveis" has no translation
Translation == [cama_mesa_banho |-> "bed_bath_table", pcs |-> "computers"]

LoadFaults == {"none", "missing_file", "malformed_file", "no_join_key"}

\* the extracts: runs of at most MaxRows consecutive rows
Extracts ==
    {SubSeq(Catalogue, w[1], w[2]) :
        w \in {v \in (DOMAIN Catalogue) \X (DOMAIN Catalogue) :
                  v[1] <= v[2] /\ v[2] < v[1] + MaxRows}}

Inputs == [fault : LoadFaults, rows : Extracts]

----------------------------------------------------------------------------
(* load_data *)

DayOf(ts) == ts \div UnitsPerDay            \* Timestamp.date()
Timestamp(day) == day * UnitsPerDay         \* pd.Timestamp(date): midnight
OneDay == UnitsPerDay                       \* timedelta(days=1)
MonthOf(ts) == DayOf(ts) \div DaysPerMonth  \* .dt.to_period('M')

\* left merge with the translation table, then fillna('Unknown')
EnglishName(cat) ==
    IF cat \in DOMAIN Translation THEN Translation[cat] ELSE "Unknown"

LoadedRow(r) ==
    [order_id |-> r.order_id, customer_id |-> r.customer_id,
     product_category_name_english |-> EnglishName(r.product_category_name),
     customer_state |-> r.customer_state,
     order_purchase_timestamp |-> r.order_purchase_timestamp,
     order_month |-> MonthOf(r.order_purchase_timestamp),
     revenue |-> r.price + r.freight_value]

\* load_data handing back whatever rows it has when a file fails
load_data_partial(input) ==
    DataFrame([i \in DOMAIN input.rows |-> LoadedRow(input.rows[i])])

\* the body of load_data: any exception is caught, reported, and None returned
load_data(input) ==
    IF input.fault # "none" THEN NoValue
    ELSE DataFrame([i \in DOMAIN input.rows |-> LoadedRow(input.rows[i])])

----------------------------------------------------------------------------
(* calculate_rfm *)

Quantiles == 4     \* q of pd.qcut
ValueError == [tag |-> "ValueError"]        \* the call raised
Codes(values) == [tag |-> "codes", values |-> values]

\* Series.rank(method='first'): ascending, ties in row order
RankFirst(v) ==
    [i \in DOMAIN v |->
        1 + Cardinality({j \in DOMAIN v : v[j] < v[i]})
          + Cardinality({j \in DOMAIN v : j < i /\ v[j] = v[i]})]

\* x.quantile(linspace(0, 1, q + 1)) of the ranks 1..n, linear interpolation:
\* edge k is 1 + (n - 1) * k / q; kept multiplied by q to stay in the integers
QuantileEdges(n, q) == [k \in 1..(q + 1) |-> q + (n - 1) * (k - 1)]

\* _bins_to_cuts: duplicates='drop' keeps the distinct edges
DropDuplicates(bins) ==
    LET uniq == SortedInts(Range(bins))
    IN IF Len(uniq) < Len(bins) /\ Len(bins) # 2 THEN uniq ELSE bins

\* bins.searchsorted(x, side='left'), with include_lowest
BinOf(bins, x) ==
    IF x = bins[1] THEN 1
    ELSE Cardinality({k \in DOMAIN bins : bins[k] < x})

\* pd.qcut(ranks, q, labels=labels, duplicates='drop') followed by astype(int)
QCut(ranks, q, labels) ==
    LET bins == DropDuplicates(QuantileEdges(Len(ranks), q))
    IN IF Len(labels) # Len(bins) - 1 THEN ValueError
       ELSE IF \E i \in DOMAIN ranks :
                   BinOf(bins, q * ranks[i]) \notin 1..(Len(bins) - 1)
            THEN ValueError
       ELSE Codes([i \in DOMAIN ranks |-> labels[BinOf(bins, q * ranks[i])]])

\* the rules with Loyal tried before Champions
segment_customer_loyal_first(row) ==
    IF row.R_score >= 3 /\ row.F_score >= 2 THEN "Loyal"
    ELSE IF row.R_score >= 3 /\ row.F_score >= 3 /\ row.M_score >= 3 THEN "Champions"
    ELSE IF row.R_score <= 2 /\ row.M_score >= 3 THEN "At Risk"
    ELSE "Potential"

segment_customer(row) ==
    IF row.R_score >= 3 /\ row.F_score >= 3 /\ row.M_score >= 3 THEN "Champions"
    ELSE IF row.R_score >= 3 /\ row.F_score >= 2 THEN "Loyal"
    ELSE IF row.R_score <= 2 /\ row.M_score >= 3 THEN "At Risk"
    ELSE "Potential"

RowsOfCustomer(df, c) == SelectSeq(df, LAMBDA r : r.customer_id = c)

snapshot_date(df) ==
    Max({df[i].order_purchase_timestamp : i \in DOMAIN df}) + OneDay

\* the difference taken the other way round
RecencyReversed(df, c) ==
    LET rows == RowsOfCustomer(df, c)
        last == Max({rows[i].order_purchase_timestamp : i \in DOMAIN rows})
    IN (last - snapshot_date(df)) \div UnitsPerDay

\* (snapshot_date - x.max()).days
Recency(df, c) ==
    LET rows == RowsOfCustomer(df, c)
        last == Max({rows[i].order_purchase_timestamp : i \in DOMAIN rows})
    IN (snapshot_date(df) - last) \div UnitsPerDay

Frequency(df, c) ==
    LET rows == RowsOfCustomer(df, c)
    IN Cardinality({rows[i].order_id : i \in DOMAIN rows})

Monetary(df, c) ==
    LET rows == RowsOfCustomer(df, c)
    IN SumSeq([i \in DOMAIN rows |-> rows[i].revenue])

\* groupby('customer_id').agg(...).reset_index(): one row per customer, by id
RfmBase(df) ==
    LET ids == SortedInts({df[i].customer_id : i \in DOMAIN df})
    IN [k \in DOMAIN ids |->
          [customer_id |-> ids[k], Recency |-> Recency(df, ids[k]),
           Frequency |-> Frequency(df, ids[k]), Monetary |-> Monetary(df, ids[k])]]

calculate_rfm(df) ==
    LET base == RfmBase(df)
        R == QCut(RankFirst([k \in DOMAIN base |-> base[k].Recency]),
                  Quantiles, <<4, 3, 2, 1>>)
        F == QCut(RankFirst([k \in DOMAIN base |-> base[k].Frequency]),
                  Quantiles, <<1, 2, 3, 4>>)
        M == QCut(RankFirst([k \in DOMAIN base |-> base[k].Monetary]),
                  Quantiles, <<1, 2, 3, 4>>)
    IN IF ValueError \in {R, F, M} THEN ValueError
       ELSE DataFrame([k \in DOMAIN base |->
               LET scored == [customer_id |-> base[k].customer_id,
                              Recency |-> base[k].Recency,
                              Frequency |-> base[k].Frequency,
                              Monetary |-> base[k].Monetary,
                              R_score |-> R.values[k], F_score |-> F.values[k],
                              M_score |-> M.values[k]]
               IN [customer_id |-> scored.customer_id,
                   Recency |-> scored.Recency,
                   Frequency |-> scored.Frequency,
                   Monetary |-> scored.Monetary,
                   R_score |-> scored.R_score, F_score |-> scored.F_score,
                   M_score |-> scored.M_score,
                   segment |-> segment_customer(scored)]])

----------------------------------------------------------------------------
(* The memoization of st.cache_data *)

NotCached == [tag |-> "miss"]

\* load_data() takes no argument: one entry, served on every later call
CachedLoad(cache, input) ==
    IF cache # NotCached THEN cache ELSE load_data(input)

\* calculate_rfm(df) is keyed on its argument; a call that raises stores nothing
CachedRfm(cache, df) ==
    IF \E e \in cache : e.key = df
    THEN (CHOOSE e \in cache : e.key = df).value
    ELSE calculate_rfm(df.rows)

StoreRfm(cache, df, value) ==
    IF value = ValueError \/ (\E e \in cache : e.key = df) THEN cache
    ELSE cache \cup {[key |-> df, value |-> value]}

----------------------------------------------------------------------------
(* Segment merge: merged_df.merge(rfm[['customer_id', 'segment']],          *)
(* on='customer_id', how='left')                                            *)

MissingSegment == "NaN"

WithSegment(r, seg) ==
    [order_id |-> r.order_id, customer_id |-> r.customer_id,
     product_category_name_english |-> r.product_category_name_english,
     customer_state |-> r.customer_state,
     order_purchase_timestamp |-> r.order_purchase_timestamp,
     order_month |-> r.order_month,
     revenue |-> r.revenue,
     segment |-> seg]

RECURSIVE MergeSegments(_, _)
\* every left row once per matching right row, or once with NaN when none matches
MergeSegments(rows, right) ==
    IF rows = <<>> THEN <<>>
    ELSE LET r == Head(rows)
             matches == SelectSeq(right, LAMBDA m : m.customer_id = r.customer_id)
             joined == IF matches = <<>> THEN <<WithSegment(r, MissingSegment)>>
                       ELSE [k \in DOMAIN matches |-> WithSegment(r, matches[k].segment)]
         IN joined \o MergeSegments(Tail(rows), right)

----------------------------------------------------------------------------
(* Sidebar widgets *)

AllCategories == "Semua Kategori"
AllStates == "Semua Wilayah"
AllSegments == "Semua Segmen"

min_date(rows) == Min({rows[i].order_purchase_timestamp : i \in DOMAIN rows})
max_date(rows) == Max({rows[i].order_purchase_timestamp : i \in DOMAIN rows})

\* what st.sidebar.date_input can return: one date (a range being picked) or
\* two ordered dates, each within [min_value, max_value]
DateSelections(rows) ==
    LET days == DayOf(min_date(rows)) .. DayOf(max_date(rows))
    IN {<<d>> : d \in days}
        \cup {p \in days \X days : p[1] <= p[2]}

DefaultDateRange(rows) == <<DayOf(min_date(rows)), DayOf(max_date(rows))>>

CategoryOptions(rows) ==
    {AllCategories} \cup {rows[i].product_category_name_english : i \in DOMAIN rows}
StateOptions(rows) ==
    {AllStates} \cup {rows[i].customer_state : i \in DOMAIN rows}
SegmentOptions(rows) ==
    {AllSegments} \cup {rows[i].segment : i \in DOMAIN rows}

\* what a multiselect over the options can return
Selections(options) == {S \in SUBSET options : Cardinality(S) <= MaxSelected}

\* the end date left at the midnight that opens the last day
EndDateNoExtraDay(range, rows) ==
    IF Len(range) = 2 THEN Timestamp(range[2]) ELSE max_date(rows)

\* lines 173-179
StartDate(range, rows) ==
    IF Len(range) = 2 THEN Timestamp(range[1]) ELSE min_date(rows)
EndDate(range, rows) ==
    IF Len(range) = 2 THEN Timestamp(range[2]) + OneDay ELSE max_date(rows)

----------------------------------------------------------------------------
(* Filters, lines 218-234 *)

DateFilter(rows, from, to) ==
    SelectSeq(rows, LAMBDA r : r.order_purchase_timestamp >= from
                               /\ r.order_purchase_timestamp < to)

\* the category filter taken from the whole table instead of the running result
CategoryFilterFromMerged(rows, selected) ==
    IF AllCategories \notin selected
    THEN SelectSeq(merged_df.rows, LAMBDA r : r.product_category_name_english \in selected)
    ELSE rows

\* the sentinel honoured only when it is the whole selection
CategoryFilterSentinelAlone(rows, selected) ==
    IF selected # {AllCategories}
    THEN SelectSeq(rows, LAMBDA r : r.product_category_name_english \in selected)
    ELSE rows

CategoryFilter(rows, selected) ==
    IF AllCategories \notin selected
    THEN SelectSeq(rows, LAMBDA r : r.product_category_name_english \in selected)
    ELSE rows

StateFilter(rows, selected) ==
    IF AllStates \notin selected
    THEN SelectSeq(rows, LAMBDA r : r.customer_state \in selected)
    ELSE rows

SegmentFilter(rows, selected) ==
    IF AllSegments \notin selected
    THEN SelectSeq(rows, LAMBDA r : r.segment \in selected)
    ELSE rows

ApplyFilters(rows, from, to, cats, states, segs) ==
    SegmentFilter(StateFilter(CategoryFilter(DateFilter(rows, from, to), cats),
                              states), segs)

----------------------------------------------------------------------------
(* Aggregation and presentation, lines 239-508 *)

TopCategories == 10     \* .head(10)
TopStates == 15         \* .head(15)
PreviewRows == 100      \* .head(100)

ZeroDivisionError == [tag |-> "ZeroDivisionError"]
NaN == [tag |-> "nan"]
Number(num, den) == [tag |-> "number", num |-> num, den |-> den]

\* a / b of two Python ints
IntDiv(a, b) == IF b = 0 THEN ZeroDivisionError ELSE Number(a, b)

\* a / b of numpy floats: 0/0 is nan and x/0 is inf, neither raises
FloatDiv(a, b) ==
    IF b # 0 THEN Number(a, b)
    ELSE IF a = 0 THEN NaN ELSE [tag |-> "inf"]

Revenue(rows) == SumSeq([i \in DOMAIN rows |-> rows[i].revenue])
Orders(rows) == {rows[i].order_id : i \in DOMAIN rows}
Customers(rows) == {rows[i].customer_id : i \in DOMAIN rows}

\* the mean taken by hand, sum over len of Python numbers
MeanRevenueByHand(rows) == IntDiv(Revenue(rows), Len(rows))

\* Series.mean(): nan for an empty series
MeanRevenue(rows) == FloatDiv(Revenue(rows), Len(rows))

Head_(s, n) == SubSeq(s, 1, IF Len(s) < n THEN Len(s) ELSE n)

RECURSIVE SortByRevenueDesc(_)
\* sort_values('revenue', ascending=False); equal revenues keep their order
SortByRevenueDesc(s) ==
    IF s = <<>> THEN <<>>
    ELSE LET top == Max({s[i].revenue : i \in DOMAIN s})
             at == Min({i \in DOMAIN s : s[i].revenue = top})
         IN <<s[at]>> \o SortByRevenueDesc(SubSeq(s, 1, at - 1) \o SubSeq(s, at + 1, Len(s)))

\* groupby(month).agg({'order_id': 'nunique', 'revenue': 'sum'})
monthly_data(rows) ==
    LET keys == SortedInts({rows[i].order_month : i \in DOMAIN rows})
    IN [k \in DOMAIN keys |->
          LET g == SelectSeq(rows, LAMBDA r : r.order_month = keys[k])
          IN [month |-> keys[k], transaction_count |-> Cardinality(Orders(g)),
              revenue |-> Revenue(g)]]

category_data(rows) ==
    LET keys == SortedStrings({rows[i].product_category_name_english : i \in DOMAIN rows})
        groups == [k \in DOMAIN keys |->
          LET g == SelectSeq(rows, LAMBDA r : r.product_category_name_english = keys[k])
          IN [product_category_name_english |-> keys[k],
              order_id |-> Cardinality(Orders(g)), revenue |-> Revenue(g)]]
    IN Head_(SortByRevenueDesc(groups), TopCategories)

\* the segment revenue taken from one row per customer
segment_data_one_row_per_customer(rows) ==
    LET keys == SortedStrings({rows[i].segment : i \in DOMAIN rows})
        firsts == SelectSeq([i \in DOMAIN rows |-> [at |-> i, row |-> rows[i]]],
                            LAMBDA x : \A j \in 1..(x.at - 1) :
                                          rows[j].customer_id # x.row.customer_id)
    IN [k \in DOMAIN keys |->
          LET g == SelectSeq(rows, LAMBDA r : r.segment = keys[k])
              f == SelectSeq(firsts, LAMBDA x : x.row.segment = keys[k])
          IN [segment |-> keys[k], customer_id |-> Cardinality(Customers(g)),
              revenue |-> SumSeq([i \in DOMAIN f |-> f[i].row.revenue])]]

\* groupby('segment') leaves out the rows whose segment is NaN
segment_data(rows) ==
    LET keys == SortedStrings({rows[i].segment : i \in DOMAIN rows})
    IN [k \in DOMAIN keys |->
          LET g == SelectSeq(rows, LAMBDA r : r.segment = keys[k])
          IN [segment |-> keys[k], customer_id |-> Cardinality(Customers(g)),
              revenue |-> Revenue(g)]]

geo_data(rows) ==
    LET keys == SortedStrings({rows[i].customer_state : i \in DOMAIN rows})
        groups == [k \in DOMAIN keys |->
          LET g == SelectSeq(rows, LAMBDA r : r.customer_state = keys[k])
          IN [customer_state |-> keys[k],
              customer_id |-> Cardinality(Customers(g)), revenue |-> Revenue(g)]]
    IN Head_(SortByRevenueDesc(groups), TopStates)

\* geo_data['revenue'] / geo_data['customer_id']
revenue_per_cust(geo) ==
    [k \in DOMAIN geo |-> FloatDiv(geo[k].revenue, geo[k].customer_id)]

RECURSIVE Product(_)
Product(s) == IF s = <<>> THEN 1 ELSE Head(s) * Product(Tail(s))

\* the sum of the ratios, over the common denominator of all of them
RatioSum(geo) ==
    LET den == Product([k \in DOMAIN geo |-> geo[k].customer_id])
    IN Number(SumSeq([k \in DOMAIN geo |-> geo[k].revenue * (den \div geo[k].customer_id)]),
              den)

\* revenue_per_cust.mean()
avg_efficiency(geo) ==
    IF geo = <<>> THEN NaN
    ELSE LET total == RatioSum(geo) IN Number(total.num, total.den * Len(geo))

\* x > avg_efficiency * 1.1, for each region shown
colors_geo(geo) ==
    LET avg == avg_efficiency(geo) IN
    [k \in DOMAIN geo |->
           IF 10 * geo[k].revenue * avg.den > 11 * avg.num * geo[k].customer_id
           THEN "#FFD700" ELSE "#FFA07A"]

\* the summary panel's list of active filters
active_filters(cats, states, segs) ==
    (IF AllCategories \notin cats THEN <<[filter |-> "Kategori", n |-> Cardinality(cats)]>>
     ELSE <<>>)
    \o (IF AllStates \notin states THEN <<[filter |-> "Wilayah", n |-> Cardinality(states)]>>
        ELSE <<>>)
    \o (IF AllSegments \notin segs THEN <<[filter |-> "Segmen", n |-> Cardinality(segs)]>>
        ELSE <<>>)

\* everything the pass shows, from the KPI cards to the period summary
Rendered(total, shown, from, to, cats, states, segs) ==
    LET geo == geo_data(shown) IN
    [total_transactions |-> Cardinality(Orders(shown)),
     pct_transactions |-> IntDiv(Cardinality(Orders(shown)), Cardinality(Orders(total))),
     unique_customers |-> Cardinality(Customers(shown)),
     pct_customers |-> IntDiv(Cardinality(Customers(shown)), Cardinality(Customers(total))),
     total_revenue |-> Revenue(shown),
     pct_revenue |-> FloatDiv(Revenue(shown), Revenue(total)),
     avg_revenue |-> MeanRevenue(shown),
     avg_revenue_total |-> MeanRevenue(total),
     monthly_data |-> monthly_data(shown),
     category_data |-> category_data(shown),
     segment_data |-> segment_data(shown),
     geo_data |-> geo,
     revenue_per_cust |-> revenue_per_cust(geo),
     avg_efficiency |-> avg_efficiency(geo),
     colors_geo |-> colors_geo(geo),
     display_df |-> Head_(shown, PreviewRows),
     active_filters |-> active_filters(cats, states, segs),
     period_start |-> DayOf(from),
     period_end |-> DayOf(to - OneDay),
     period_days |-> (to - from) \div UnitsPerDay]

\* the pass raises where a Python int is divided by zero
RenderRaises(o) ==
    ZeroDivisionError \in {o.pct_transactions, o.pct_customers, o.pct_revenue,
                           o.avg_revenue, o.avg_revenue_total, o.avg_efficiency}

----------------------------------------------------------------------------
(* The script, one action per section; a pass runs them in order *)

\* sorted() of the segment options raises TypeError when NaN stands beside labels
SidebarRaises(rows) ==
    /\ \E i \in DOMAIN rows : rows[i].segment = MissingSegment
    /\ \E i \in DOMAIN rows : rows[i].segment # MissingSegment

NoScore == [R_score |-> 0, F_score |-> 0, M_score |-> 0]

PassReset ==
    /\ ran' = {}
    /\ reported' = "nothing"
    /\ merged_df' = Unset
    /\ rfm' = Unset
    /\ date_range' = <<>>
    /\ selected_categories' = {}
    /\ selected_states' = {}
    /\ selected_segments' = {}
    /\ start_date' = 0
    /\ end_date' = 0
    /\ filtered_df' = Unset
    /\ out' = Unset

Init ==
    /\ files \in Inputs
    /\ load_cache = NotCached
    /\ rfm_cache = {}
    /\ first_run = TRUE
    /\ pc = "load"
    /\ ran = {}
    /\ reported = "nothing"
    /\ merged_df = Unset
    /\ rfm = Unset
    /\ date_range = <<>>
    /\ selected_categories = {}
    /\ selected_states = {}
    /\ selected_segments = {}
    /\ start_date = 0
    /\ end_date = 0
    /\ filtered_df = Unset
    /\ out = Unset
    /\ score_in = NoScore
    /\ score_out = "none"

\* lines 99-103: load (memoized); on None report and st.stop()
Load ==
    /\ pc = "load"
    /\ LET df == CachedLoad(load_cache, files)
       IN /\ load_cache' = df
          /\ merged_df' = df
          /\ reported' = IF df = NoValue THEN "Failed to load data" ELSE reported
          /\ pc' = IF df = NoValue THEN "stopped" ELSE "rfm"
    /\ ran' = ran \cup (IF load_cache # NotCached THEN {"load", "load_hit"} ELSE {"load"})
    /\ UNCHANGED <<files, rfm_cache, first_run, rfm, date_range,
                   selected_categories, selected_states, selected_segments,
                   start_date, end_date, filtered_df, out, score_in, score_out>>

\* lines 105-106: RFM (memoized), then the segment merge into a new frame
RfmStep(result) ==
    /\ rfm' = result
    /\ rfm_cache' = StoreRfm(rfm_cache, merged_df, result)
    /\ merged_df' = IF result = ValueError THEN merged_df
                    ELSE DataFrame(MergeSegments(merged_df.rows, result.rows))
    /\ reported' = IF result = ValueError THEN "ValueError" ELSE reported
    /\ pc' = IF result = ValueError THEN "raised" ELSE "sidebar"
    /\ ran' = ran \cup {"rfm"}
                  \cup (IF result = ValueError THEN {} ELSE {"merge"})
                  \cup (IF \E e \in rfm_cache : e.key = merged_df THEN {"rfm_hit"} ELSE {})
    /\ UNCHANGED <<files, first_run, date_range,
                   selected_categories, selected_states, selected_segments,
                   start_date, end_date, filtered_df, out, score_in, score_out>>

\* the segment merge written into the frame the load_data cache holds
RfmInPlace ==
    /\ pc = "rfm"
    /\ RfmStep(CachedRfm(rfm_cache, merged_df))
    /\ load_cache' = merged_df'

Rfm ==
    /\ pc = "rfm"
    /\ RfmStep(CachedRfm(rfm_cache, merged_df))
    /\ load_cache' = load_cache

\* lines 160-209: the widgets return their defaults on the session's first pass
\* and whatever the user has set on a later one
Sidebar ==
    /\ pc = "sidebar"
    /\ IF SidebarRaises(merged_df.rows)
       THEN /\ pc' = "raised"
            /\ reported' = "TypeError"
            /\ UNCHANGED <<first_run, date_range, selected_categories, selected_states,
                           selected_segments, start_date, end_date>>
       ELSE /\ pc' = "filter"
            /\ reported' = reported
            /\ first_run' = FALSE
            /\ date_range' \in IF first_run THEN {DefaultDateRange(merged_df.rows)}
                               ELSE DateSelections(merged_df.rows)
            /\ selected_categories' \in IF first_run THEN {{AllCategories}}
                               ELSE Selections(CategoryOptions(merged_df.rows))
            /\ selected_states' \in IF first_run THEN {{AllStates}}
                               ELSE Selections(StateOptions(merged_df.rows))
            /\ selected_segments' \in IF first_run THEN {{AllSegments}}
                               ELSE Selections(SegmentOptions(merged_df.rows))
            /\ start_date' = StartDate(date_range', merged_df.rows)
            /\ end_date' = EndDate(date_range', merged_df.rows)
    /\ ran' = ran \cup {"sidebar"}
    /\ UNCHANGED <<files, load_cache, rfm_cache, merged_df, rfm, filtered_df, out,
                   score_in, score_out>>

\* lines 218-234
Filter ==
    /\ pc = "filter"
    /\ filtered_df' = DataFrame(ApplyFilters(merged_df.rows, start_date, end_date,
                                             selected_categories, selected_states,
                                             selected_segments))
    /\ pc' = "render"
    /\ ran' = ran \cup {"filter"}
    /\ UNCHANGED <<files, load_cache, rfm_cache, first_run, reported, merged_df, rfm,
                   date_range, selected_categories, selected_states,
                   selected_segments, start_date, end_date, out, score_in, score_out>>

\* lines 239-508: KPI cards, charts, preview table, summary
Render ==
    /\ pc = "render"
    /\ LET o == Rendered(merged_df.rows, filtered_df.rows, start_date, end_date,
                         selected_categories, selected_states, selected_segments)
       IN /\ out' = IF RenderRaises(o) THEN Unset ELSE o
          /\ reported' = IF RenderRaises(o) THEN "ZeroDivisionError" ELSE reported
          /\ pc' = IF RenderRaises(o) THEN "raised" ELSE "done"
    /\ ran' = ran \cup {"render"}
    /\ UNCHANGED <<files, load_cache, rfm_cache, first_run, merged_df, rfm,
                   date_range, selected_categories, selected_states,
                   selected_segments, start_date, end_date, filtered_df,
                   score_in, score_out>>

\* a UI interaction re-runs the script from the top; only the caches and the
\* session's widgets outlive the pass
Rerun ==
    /\ pc \in {"done", "stopped", "raised"}
    /\ pc' = "load"
    /\ PassReset
    /\ UNCHANGED <<files, load_cache, rfm_cache, first_run, score_in, score_out>>

Next == Load \/ Rfm \/ Sidebar \/ Filter \/ Render \/ Rerun

Spec == Init /\ [][Next]_vars

----------------------------------------------------------------------------
(* segment_customer on its own: every score triple the labels 1..4 allow *)

Scores == 1..Quantiles

InitSeg ==
    /\ files = [fault |-> "none", rows |-> <<Catalogue[1]>>]
    /\ load_cache = NotCached
    /\ rfm_cache = {}
    /\ first_run = TRUE
    /\ pc = "segment"
    /\ ran = {}
    /\ reported = "nothing"
    /\ merged_df = Unset
    /\ rfm = Unset
    /\ date_range = <<>>
    /\ selected_categories = {}
    /\ selected_states = {}
    /\ selected_segments = {}
    /\ start_date = 0
    /\ end_date = 0
    /\ filtered_df = Unset
    /\ out = Unset
    /\ score_in \in [R_score : Scores, F_score : Scores, M_score : Scores]
    /\ score_out = "none"

\* rfm.apply(segment_customer, axis=1) on one row
Segment ==
    /\ pc = "segment"
    /\ score_out = "none"
    /\ score_out' = segment_customer(score_in)
    /\ UNCHANGED <<files, load_cache, rfm_cache, first_run, pc, ran, reported,
                   merged_df, rfm, date_range, selected_categories, selected_states,
                   selected_segments, start_date, end_date, filtered_df, out, score_in>>

NextSeg == Segment

SpecSeg == InitSeg /\ [][NextSeg]_vars

----------------------------------------------------------------------------
(* Properties *)

SegmentLabels == {"Champions", "Loyal", "At Risk", "Potential"}

IsChampion(t) == t.R_score >= 3 /\ t.F_score >= 3 /\ t.M_score >= 3
IsLoyal(t) == t.R_score >= 3 /\ t.F_score >= 2
IsAtRisk(t) == t.R_score <= 2 /\ t.M_score >= 3

\* C1: for every score triple in 1..4 segment_customer returns exactly one of
\* the four labels, the one of the first rule that matches: Champions, else
\* Loyal, else At Risk, else Potential.
C1_SegmentFirstMatch ==
    score_out # "none" =>
        /\ score_out \in SegmentLabels
        /\ (score_out = "Champions") <=> IsChampion(score_in)
        /\ (score_out = "Loyal") <=> (~IsChampion(score_in) /\ IsLoyal(score_in))
        /\ (score_out = "At Risk") <=>
              (~IsChampion(score_in) /\ ~IsLoyal(score_in) /\ IsAtRisk(score_in))
        /\ (score_out = "Potential") <=>
              (~IsChampion(score_in) /\ ~IsLoyal(score_in) /\ ~IsAtRisk(score_in))

\* R=3, F=3, M=2 has been labelled Loyal
C1_Witness ==
    /\ score_in = [R_score |-> 3, F_score |-> 3, M_score |-> 2]
    /\ score_out = "Loyal"

\* the predicate of each filter, as the sidebar's values state it
InDateWindow(r) ==
    r.order_purchase_timestamp >= start_date /\ r.order_purchase_timestamp < end_date
InCategories(r) ==
    AllCategories \in selected_categories
    \/ r.product_category_name_english \in selected_categories
InStates(r) ==
    AllStates \in selected_states \/ r.customer_state \in selected_states
InSegments(r) ==
    AllSegments \in selected_segments \/ r.segment \in selected_segments

\* one filter by number, so that the four can be applied in any order
FilterNo(k, rows) ==
    CASE k = 1 -> DateFilter(rows, start_date, end_date)
      [] k = 2 -> CategoryFilter(rows, selected_categories)
      [] k = 3 -> StateFilter(rows, selected_states)
      [] k = 4 -> SegmentFilter(rows, selected_segments)

Orderings == {p \in [1..4 -> 1..4] : {p[k] : k \in 1..4} = 1..4}

InOrder(p, rows) == FilterNo(p[4], FilterNo(p[3], FilterNo(p[2], FilterNo(p[1], rows))))

\* C2: the filtered table is the rows of the table that satisfy all active
\* predicates at once, and applying the four filters in any order gives it.
C2_FilterIntersective ==
    pc = "render" =>
        /\ filtered_df.rows =
              SelectSeq(merged_df.rows,
                        LAMBDA r : InDateWindow(r) /\ InCategories(r)
                                   /\ InStates(r) /\ InSegments(r))
        /\ \A p \in Orderings : InOrder(p, merged_df.rows) = filtered_df.rows

\* all four filters active, each removing a row some other one keeps
C2_Witness ==
    /\ pc = "render"
    /\ Len(date_range) = 2
    /\ AllCategories \notin selected_categories
    /\ AllStates \notin selected_states
    /\ AllSegments \notin selected_segments
    /\ filtered_df.rows # <<>>
    /\ \E i \in DOMAIN merged_df.rows : ~InDateWindow(merged_df.rows[i])
    /\ \E i \in DOMAIN merged_df.rows :
          InDateWindow(merged_df.rows[i]) /\ ~InCategories(merged_df.rows[i])

\* C3: a categorical selection that holds its sentinel removes no row, and
\* with the three sentinels and the date picker on the whole data range the
\* filtered table is the whole joined table.
C3_SentinelKeepsAll ==
    pc = "render" =>
        /\ AllCategories \in selected_categories =>
              filtered_df.rows =
                 SelectSeq(merged_df.rows,
                           LAMBDA r : InDateWindow(r) /\ InStates(r) /\ InSegments(r))
        /\ AllStates \in selected_states =>
              filtered_df.rows =
                 SelectSeq(merged_df.rows,
                           LAMBDA r : InDateWindow(r) /\ InCategories(r) /\ InSegments(r))
        /\ AllSegments \in selected_segments =>
              filtered_df.rows =
                 SelectSeq(merged_df.rows,
                           LAMBDA r : InDateWindow(r) /\ InCategories(r) /\ InStates(r))
        /\ ( /\ AllCategories \in selected_categories
             /\ AllStates \in selected_states
             /\ AllSegments \in selected_segments
             /\ date_range = DefaultDateRange(merged_df.rows) )
           => filtered_df.rows = merged_df.rows

\* the sentinel ticked beside a category that not every row has, nothing else
\* restricted: the whole table came through
C3_Witness ==
    /\ pc = "render"
    /\ AllCategories \in selected_categories
    /\ \E i \in DOMAIN merged_df.rows :
          /\ merged_df.rows[i].product_category_name_english \in selected_categories
    /\ \E i \in DOMAIN merged_df.rows :
          /\ merged_df.rows[i].product_category_name_english \notin selected_categories
    /\ AllStates \in selected_states
    /\ AllSegments \in selected_segments
    /\ date_range = DefaultDateRange(merged_df.rows)
    /\ ~first_run
    /\ "load_hit" \in ran
    /\ filtered_df.rows = merged_df.rows

\* C4: when loading fails the error is reported and the pass halts: no stage
\* after the load runs and nothing is computed.
C4_LoadFailureHalts ==
    files.fault # "none" =>
        /\ pc \in {"load", "stopped"}
        /\ ran \subseteq {"load", "load_hit"}
        /\ merged_df \in {Unset, NoValue}
        /\ rfm = Unset
        /\ rfm_cache = {}
        /\ filtered_df = Unset
        /\ out = Unset
        /\ pc = "stopped" => reported = "Failed to load data"

\* a pass over a missing file has stopped after the load
C4_Witness ==
    /\ files.fault = "missing_file"
    /\ pc = "stopped"
    /\ ran = {"load"}
    /\ reported = "Failed to load data"

\* C5: when the filters select no row the pass still completes: the KPI
\* cards, every grouped aggregation and the summary show zero transactions,
\* zero revenue and empty chart data.
C5_EmptyFilterRenders ==
    ("render" \in ran /\ filtered_df.rows = <<>>) =>
        /\ pc = "done"
        /\ reported = "nothing"
        /\ out.total_transactions = 0
        /\ out.unique_customers = 0
        /\ out.total_revenue = 0
        /\ out.pct_transactions.tag = "number" /\ out.pct_transactions.num = 0
        /\ out.pct_customers.tag = "number" /\ out.pct_customers.num = 0
        /\ out.monthly_data = <<>>
        /\ out.category_data = <<>>
        /\ out.segment_data = <<>>
        /\ out.geo_data = <<>>
        /\ out.revenue_per_cust = <<>>
        /\ out.colors_geo = <<>>
        /\ out.display_df = <<>>

\* a pass whose category and region selections share no row has finished
C5_Witness ==
    /\ pc = "done"
    /\ filtered_df.rows = <<>>
    /\ Len(date_range) = 2
    /\ selected_categories # {} /\ AllCategories \notin selected_categories
    /\ selected_states # {} /\ AllStates \notin selected_states
    /\ \E i \in DOMAIN merged_df.rows : InDateWindow(merged_df.rows[i]) /\ InCategories(merged_df.rows[i])
    /\ \E i \in DOMAIN merged_df.rows : InDateWindow(merged_df.rows[i]) /\ InStates(merged_df.rows[i])
    /\ out.total_revenue = 0

\* C6: calculate_rfm completes on every non-empty joined table, a single
\* customer included, and gives every customer a segment label.
C6_RfmNeverFails ==
    "rfm" \in ran =>
        /\ rfm # ValueError
        /\ \A c \in Customers(files.rows) :
              \E k \in DOMAIN rfm.rows :
                  rfm.rows[k].customer_id = c /\ rfm.rows[k].segment \in SegmentLabels

\* C7: for a two-date selection [s, e] the date filter keeps exactly the rows
\* whose purchase timestamp lies on a day from s to e: all of day e, nothing
\* from the midnight that follows it.
C7_DateWindow ==
    (pc = "render" /\ Len(date_range) = 2) =>
        /\ \A i \in DOMAIN filtered_df.rows :
              DayOf(filtered_df.rows[i].order_purchase_timestamp)
                  \in date_range[1]..date_range[2]
        /\ filtered_df.rows =
              SelectSeq(merged_df.rows,
                        LAMBDA r : /\ DayOf(r.order_purchase_timestamp)
                                         \in date_range[1]..date_range[2]
                                   /\ InCategories(r) /\ InStates(r) /\ InSegments(r))

\* a row late on day e is kept and a row at the next midnight is dropped
C7_Witness ==
    /\ pc = "render"
    /\ Len(date_range) = 2
    /\ \E i \in DOMAIN filtered_df.rows :
          /\ DayOf(filtered_df.rows[i].order_purchase_timestamp) = date_range[2]
          /\ filtered_df.rows[i].order_purchase_timestamp > Timestamp(date_range[2])
    /\ \E i \in DOMAIN merged_df.rows :
          /\ merged_df.rows[i].order_purchase_timestamp = Timestamp(date_range[2] + 1)
          /\ \A j \in DOMAIN filtered_df.rows :
                filtered_df.rows[j].order_purchase_timestamp
                    # merged_df.rows[i].order_purchase_timestamp

\* C8: every row of the filtered table carries the one segment label of its
\* customer, and the per-segment revenues add up to the filtered revenue.
C8_PartitionComplete ==
    pc = "done" =>
        /\ Len(merged_df.rows) = Len(files.rows)
        /\ \A i \in DOMAIN filtered_df.rows :
              /\ filtered_df.rows[i].segment \in SegmentLabels
              /\ \A k \in DOMAIN rfm.rows :
                    rfm.rows[k].customer_id = filtered_df.rows[i].customer_id
                        => rfm.rows[k].segment = filtered_df.rows[i].segment
              /\ Cardinality({k \in DOMAIN rfm.rows :
                    rfm.rows[k].customer_id = filtered_df.rows[i].customer_id}) = 1
        /\ SumSeq([k \in DOMAIN out.segment_data |-> out.segment_data[k].revenue])
              = out.total_revenue
        /\ out.total_revenue =
              SumSeq([i \in DOMAIN filtered_df.rows |-> filtered_df.rows[i].revenue])

\* two segments shown, one of them holding a customer with several rows
C8_Witness ==
    /\ pc = "done"
    /\ Len(out.segment_data) >= 2
    /\ \E i, j \in DOMAIN filtered_df.rows :
          i # j /\ filtered_df.rows[i].customer_id = filtered_df.rows[j].customer_id
    /\ out.total_revenue > 0

\* C9: every customer of the joined table has one RFM record, with
\* Recency >= 0 and Frequency >= 1.
C9_RecencyFrequency ==
    rfm.tag = "DataFrame" =>
        /\ \A c \in Customers(files.rows) :
              Cardinality({k \in DOMAIN rfm.rows : rfm.rows[k].customer_id = c}) = 1
        /\ \A k \in DOMAIN rfm.rows :
              /\ rfm.rows[k].Recency >= 0
              /\ rfm.rows[k].Frequency >= 1

\* a customer with two orders beside another with one, last seen a day ago
C9_Witness ==
    /\ rfm.tag = "DataFrame"
    /\ \E k \in DOMAIN rfm.rows : rfm.rows[k].Frequency = 2
    /\ \E k \in DOMAIN rfm.rows : rfm.rows[k].Frequency = 1 /\ rfm.rows[k].Recency = 1

\* what a first pass computes from the input files and the selections, with
\* nothing memoized
FreshPass(input, range, cats, states, segs) ==
    LET loaded == load_data(input)
        scored == calculate_rfm(loaded.rows)
        merged == MergeSegments(loaded.rows, scored.rows)
        from == StartDate(range, merged)
        to == EndDate(range, merged)
        shown == ApplyFilters(merged, from, to, cats, states, segs)
    IN [rfm |-> scored, merged_df |-> DataFrame(merged),
        start_date |-> from, end_date |-> to,
        filtered_df |-> DataFrame(shown),
        out |-> Rendered(merged, shown, from, to, cats, states, segs)]

\* C10: after any sequence of passes, memoized or not, what a pass ends with
\* is what a first pass over the same input files with the same filter
\* selections computes, and the memoized values are never altered by a pass.
C10_Deterministic ==
    /\ load_cache \in {NotCached, load_data(files)}
    /\ \A e \in rfm_cache :
          e.key = load_data(files) /\ e.value = calculate_rfm(e.key.rows)
    /\ pc = "stopped" =>
          /\ load_data(files) = NoValue
          /\ merged_df = NoValue
          /\ reported = "Failed to load data"
    /\ pc = "raised" =>
          /\ load_data(files) # NoValue
          /\ calculate_rfm(load_data(files).rows) = ValueError
          /\ rfm = ValueError
          /\ merged_df = load_data(files)
          /\ reported = "ValueError"
    /\ pc = "done" =>
          /\ reported = "nothing"
          /\ [rfm |-> rfm, merged_df |-> merged_df,
              start_date |-> start_date, end_date |-> end_date,
              filtered_df |-> filtered_df, out |-> out]
             = FreshPass(files, date_range, selected_categories, selected_states,
                         selected_segments)

\* a later pass, served from both caches, with a selection that drops rows
C10_Witness ==
    /\ pc = "done"
    /\ {"load_hit", "rfm_hit"} \subseteq ran
    /\ ~first_run
    /\ AllSegments \notin selected_segments
    /\ filtered_df.rows # <<>>
    /\ Len(filtered_df.rows) < Len(merged_df.rows)

\* C11: when the date picker returns anything other than two dates the date
\* filter spans the whole data and excludes no row, the rows carrying the
\* latest purchase timestamp included.
C11_FallbackKeepsAll ==
    (pc = "render" /\ Len(date_range) # 2) =>
        /\ \A i \in DOMAIN merged_df.rows : InDateWindow(merged_df.rows[i])
        /\ ( /\ AllCategories \in selected_categories
             /\ AllStates \in selected_states
             /\ AllSegments \in selected_segments )
           => filtered_df.rows = merged_df.rows

====
